---------------------------- MODULE Spec2Model ----------------------------
(***************************************************************************)
(* ReactionGraph of projects/combinatory-chemistry/reaction_graph.py: the  *)
(* bipartite reaction/expression graph, its mutators, the food closure,    *)
(* the RAF fixed point and the cycle-length ("RAF level") estimator.       *)
(***************************************************************************)
EXTENDS Integers, Sequences, FiniteSets, TLC

\* ------------------------------------------------------------------ bounds
\* add_reaction is called at most MaxAdds times in all (Spec).
MaxAdds == 4
\* The graph analysed by get_raf / get_set_closure holds at most MaxReactions
\* reaction nodes (RafSpec).
MaxReactions == 2

\* ------------------------------------------------- expressions, reactions
\* Expression values (hashable, compared by value).
Exprs == {"A", "B", "C"}

\* len(expression)
ExprLen(e) == IF e = "C" THEN 2 ELSE 1

\* A Reaction value: type tag, ordered reactives, ordered products, substrate.
Rx(t, rs, ps, s) == [type |-> t, reactives |-> rs, products |-> ps, substrate |-> s]

r1 == Rx("reduce", <<"A", "B">>, <<"C">>, "A")
r2 == Rx("reduce", <<"C">>, <<"A">>, "C")
r3 == Rx("reduce", <<"C", "B">>, <<"B", "C">>, "C")
r4 == Rx("reduce", <<"C">>, <<"C">>, "C")
r5 == Rx("combine", <<"B", "A">>, <<"A", "C">>, "B")

\* The reactions a driver submits to the graph in Spec.
Reactions == {r1, r2, r3, r4, r5}

Range(f) == {f[i] : i \in DOMAIN f}

\* ---------------------------------------------------------------- the graph
\* self.graph, an nx.DiGraph: `order` is the reaction nodes in the node
\* dict's (insertion) order, `occ` their 'occurrences' attribute, `exprs` the
\* expression nodes, `rin` the edges reactive -> reaction with their
\* 'substrate' attribute, `rout` the edges reaction -> product (substrate
\* False on all of them).
EmptyGraph == [order |-> <<>>, occ |-> <<>>, exprs |-> {}, rin |-> {}, rout |-> {}]

RNodes(g) == Range(g.order)

\* Python values a node attribute lookup can give.
PyNone == [tag |-> "None"]
PyInt(n) == [tag |-> "int", v |-> n]
PyStr(s) == [tag |-> "str", v |-> s]
KeyError == [tag |-> "KeyError"]

\* Nodes as lookup keys: an expression or a reaction.
ENode(e) == [kind |-> "expression", e |-> e]
RNode(r) == [kind |-> "reaction", r |-> r]

InGraph(g, node) ==
  IF node.kind = "expression" THEN node.e \in g.exprs ELSE node.r \in RNodes(g)

\* The attribute dict of a node of the graph.
HasAttr(g, node, attribute) ==
  IF node.kind = "expression" THEN attribute = "node_type"
  ELSE attribute \in {"node_type", "reaction_type", "occurrences"}

Attr(g, node, attribute) ==
  IF node.kind = "expression" THEN PyStr("expression")
  ELSE CASE attribute = "node_type" -> PyStr("reaction")
         [] attribute = "reaction_type" -> PyStr(node.r.type)
         [] OTHER -> PyInt(g.occ[node.r])

\* self.graph.nodes(attribute)[node]: NodeDataView.__getitem__ raises KeyError
\* for a node that is not in the graph and gives the view's default (None)
\* for a node that lacks the attribute.
NodeDataViewGetItem(g, attribute, node) ==
  IF ~InGraph(g, node) THEN KeyError
  ELSE IF HasAttr(g, node, attribute) THEN Attr(g, node, attribute)
  ELSE PyNone

\* get_node_attribute(node, attribute, default=None); the result KeyError
\* stands for the exception propagating.
get_node_attribute(g, node, attribute, default) ==
  LET got == NodeDataViewGetItem(g, attribute, node)
  IN  IF got = KeyError
      THEN IF default = PyNone THEN KeyError ELSE default
      ELSE got

get_occurrences(g, reaction) ==
  get_node_attribute(g, RNode(reaction), "occurrences", PyInt(0))

\* The function f with key k set to v (k added when it is not in DOMAIN f).
Put(f, k, v) == [x \in DOMAIN f \cup {k} |-> IF x = k THEN v ELSE f[x]]

RECURSIVE AddIn(_, _, _, _)
\* add_reaction's loop over the reactives from index i on: add_node, add_edge.
AddIn(g, reaction, i, substrate) ==
  IF i > Len(reaction.reactives) THEN g
  ELSE LET r == reaction.reactives[i]
           kept == {e \in g.rin : ~(e.from = r /\ e.to = reaction)}
           edge == [from |-> r, to |-> reaction, substrate |-> (r = substrate)]
       IN  AddIn([g EXCEPT !.exprs = @ \cup {r}, !.rin = kept \cup {edge}],
                 reaction, i + 1, substrate)

\* add_reaction without the lookup of the occurrences so far.
add_reaction_fresh(g, reaction_node) ==
  LET g1 == [g EXCEPT !.order = IF reaction_node \in RNodes(g) THEN @
                                ELSE Append(@, reaction_node),
                      !.occ = Put(@, reaction_node, 1)]
      g2 == AddIn(g1, reaction_node, 1, reaction_node.substrate)
  IN  [g2 EXCEPT !.exprs = @ \cup Range(reaction_node.products),
                 !.rout = @ \cup {<<reaction_node, p>> : p \in Range(reaction_node.products)}]

add_reaction(g, reaction_node) ==
  LET occurrences == get_occurrences(g, reaction_node).v
      g1 == [g EXCEPT !.order = IF reaction_node \in RNodes(g) THEN @
                                ELSE Append(@, reaction_node),
                      !.occ = Put(@, reaction_node, occurrences + 1)]
      g2 == AddIn(g1, reaction_node, 1, reaction_node.substrate)
  IN  [g2 EXCEPT !.exprs = @ \cup Range(reaction_node.products),
                 !.rout = @ \cup {<<reaction_node, p>> : p \in Range(reaction_node.products)}]

RECURSIVE MinByLen(_, _, _)
\* min(reactives, key=len): the first reactive of minimum length; `best` is
\* the minimum of the reactives before index i.
MinByLen(reactives, i, best) ==
  IF i > Len(reactives) THEN best
  ELSE MinByLen(reactives, i + 1,
                IF ExprLen(reactives[i]) < ExprLen(best) THEN reactives[i] ELSE best)

HasEdgeIn(g, e, r) == \E x \in g.rin : x.from = e /\ x.to = r

RECURSIVE FoodEdgesLoop(_, _)
\* remove_food_edges' loop over the nodes from index i of the node order on;
\* nx's remove_edge raises NetworkXError for an edge that is not in the graph,
\* which ends the loop with the edges removed so far gone.
FoodEdgesLoop(g, i) ==
  IF i > Len(g.order) THEN [graph |-> g, raised |-> FALSE]
  ELSE LET n == g.order[i]
       IN  IF n.type = "reduce" /\ Len(n.reactives) > 1
           THEN LET food_node == MinByLen(n.reactives, 2, n.reactives[1])
                IN  IF HasEdgeIn(g, food_node, n)
                    THEN FoodEdgesLoop(
                           [g EXCEPT !.rin = {x \in @ : ~(x.from = food_node /\ x.to = n)}],
                           i + 1)
                    ELSE [graph |-> g, raised |-> TRUE]
           ELSE FoodEdgesLoop(g, i + 1)

remove_food_edges(g) == FoodEdgesLoop(g, 1)

\* nx's remove_nodes_from for reaction nodes: the nodes and their edges go.
RemoveReactionNodes(g, gone) ==
  [order |-> SelectSeq(g.order, LAMBDA n : n \notin gone),
   occ   |-> [n \in DOMAIN g.occ \ gone |-> g.occ[n]],
   exprs |-> g.exprs,
   rin   |-> {x \in g.rin : x.to \notin gone},
   rout  |-> {x \in g.rout : x[1] \notin gone}]

\* n.reactives == n.products, on the ordered values the Reaction holds.
IsSelfloop(n) == n.reactives = n.products

remove_selfloop(g) ==
  RemoveReactionNodes(g, {n \in RNodes(g) : IsSelfloop(n)})

trim_short_formulae(g, max_len) ==
  LET gone == {e \in g.exprs : ExprLen(e) <= max_len}
  IN  [g EXCEPT !.exprs = @ \ gone,
                !.rin = {x \in @ : x.from \notin gone},
                !.rout = {x \in @ : x[2] \notin gone}]

get_formulae_nodes(g) == g.exprs

\* graph.subgraph(reactions | formulae): the induced subgraph on these nodes.
get_subgraph_from_reactions(g, reactions) ==
  LET formulae == get_formulae_nodes(g)
      gone == RNodes(g) \ reactions
  IN  [order |-> SelectSeq(g.order, LAMBDA n : n \notin gone),
       occ   |-> [n \in DOMAIN g.occ \ gone |-> g.occ[n]],
       exprs |-> formulae,
       rin   |-> {x \in g.rin : x.to \notin gone /\ x.from \in formulae},
       rout  |-> {x \in g.rout : x[1] \notin gone /\ x[2] \in formulae}]

get_all_reducing_reactions(g) == {n \in RNodes(g) : n.type = "reduce"}

\* ------------------------------------------------------------- food closure
\* The orders in which a Python set of reactions can be iterated.
Orders(S) == {o \in [1..Cardinality(S) -> S] : Range(o) = S}

RECURSIVE ClosurePassAnyReactive(_, _, _, _)
\* ClosurePass with any() for all() over the reactives.
ClosurePassAnyReactive(s, reactions, i, updated) ==
  IF i > Len(reactions) THEN [s |-> s, s_updated |-> updated]
  ELSE LET r == reactions[i]
       IN  IF (\E p \in Range(r.products) : p \notin s)
              /\ (\E reactive \in Range(r.reactives) : reactive \in s)
           THEN ClosurePassAnyReactive(s \cup Range(r.products), reactions, i + 1, TRUE)
           ELSE ClosurePassAnyReactive(s, reactions, i + 1, updated)

RECURSIVE ClosurePass(_, _, _, _)
\* One `for r in reactions` pass of get_set_closure from index i on;
\* `updated` is s_updated.
ClosurePass(s, reactions, i, updated) ==
  IF i > Len(reactions) THEN [s |-> s, s_updated |-> updated]
  ELSE LET r == reactions[i]
       IN  IF (\E p \in Range(r.products) : p \notin s)
              /\ (\A reactive \in Range(r.reactives) : reactive \in s)
           THEN ClosurePass(s \cup Range(r.products), reactions, i + 1, TRUE)
           ELSE ClosurePass(s, reactions, i + 1, updated)

RECURSIVE ClosureLoop(_, _, _, _)
\* get_set_closure's `while s_updated` loop; `passes` counts the passes made
\* and the loop is cut (terminated FALSE) after `fuel` of them.
ClosureLoop(s, reactions, passes, fuel) ==
  IF fuel = 0 THEN [s |-> s, passes |-> passes, terminated |-> FALSE]
  ELSE LET p == ClosurePass(s, reactions, 1, FALSE)
       IN  IF p.s_updated THEN ClosureLoop(p.s, reactions, passes + 1, fuel - 1)
           ELSE [s |-> p.s, passes |-> passes + 1, terminated |-> TRUE]

\* More passes than any terminating run over these reactions can make.
ClosureFuel(reactions) == Cardinality(Exprs) + Len(reactions) + 2

\* get_set_closure(s, reactions), the reactions iterated in the order given.
get_set_closure(s, reactions) ==
  ClosureLoop(s, reactions, 0, ClosureFuel(reactions))

\* ---------------------------------------------------------------------- RAF
UnionOf(sets) == UNION sets

\* RafStep without the product_non_trivial test: the unmodified RAF pruning.
RafStepClassic(raf, food_cl) ==
  LET all_products == UnionOf({Range(r.products) : r \in raf})
  IN  {r \in raf : \A x \in Range(r.reactives) : x \in food_cl \/ x \in all_products}

\* RafStep with any() for all() in all_reactives_produced.
RafStepAnyReactive(raf, food_cl) ==
  LET all_reactives == UnionOf({Range(r.reactives) : r \in raf})
      all_products == UnionOf({Range(r.products) : r \in raf})
  IN  {r \in raf :
         /\ \E x \in Range(r.reactives) : x \in food_cl \/ x \in all_products
         /\ \E x \in Range(r.products) : x \in all_reactives /\ x \notin food_cl}

\* RafStep with product_non_trivial not asking that the product is consumed.
RafStepUnconsumed(raf, food_cl) ==
  LET all_products == UnionOf({Range(r.products) : r \in raf})
  IN  {r \in raf :
         /\ \A x \in Range(r.reactives) : x \in food_cl \/ x \in all_products
         /\ \E x \in Range(r.products) : x \notin food_cl}

\* One pass of get_raf's while loop: new_raf from raf.
RafStep(raf, food_cl) ==
  LET all_reactives == UnionOf({Range(r.reactives) : r \in raf})
      all_products == UnionOf({Range(r.products) : r \in raf})
      all_reactives_produced(r) ==
        \A x \in Range(r.reactives) : x \in food_cl \/ x \in all_products
      product_non_trivial(r) ==
        \E x \in Range(r.products) : x \in all_reactives /\ x \notin food_cl
  IN  {r \in raf : all_reactives_produced(r) /\ product_non_trivial(r)}

RECURSIVE RafLoop(_, _, _, _)
\* The loop `while raf != old_raf`, entered with old_raf = None: it ends when
\* a pass leaves raf as it was. Cut (terminated FALSE) after `fuel` passes.
RafLoop(raf, food_cl, passes, fuel) ==
  IF fuel = 0 THEN [raf |-> raf, passes |-> passes, terminated |-> FALSE]
  ELSE LET new_raf == RafStep(raf, food_cl)
       IN  IF new_raf /= raf THEN RafLoop(new_raf, food_cl, passes + 1, fuel - 1)
           ELSE [raf |-> new_raf, passes |-> passes + 1, terminated |-> TRUE]

\* The reactives the closing loop of get_raf logs as 'not being generated by
\* RAF' (logger.error): not in food_set and a product of no member of raf.
RafNotGenerated(raf, food_set) ==
  {p \in UnionOf({Range(r.reactives) : r \in raf}) :
     p \notin food_set /\ ~(\E q \in raf : p \in Range(q.products))}

\* get_raf(food_set); `order` is the order in which the set `reductions` is
\* iterated by get_set_closure.
get_raf(g, food_set, order) ==
  LET reductions == get_all_reducing_reactions(g)
      closure == get_set_closure(food_set, order)
      loop == RafLoop(reductions, closure.s, 0, Cardinality(reductions) + 2)
  IN  [raf |-> loop.raf,
       food_cl |-> closure.s,
       terminated |-> closure.terminated /\ loop.terminated,
       not_generated |-> RafNotGenerated(loop.raf, food_set)]

\* --------------------------------------------------------- cycle estimator
\* self.graph.nodes()
Nodes(g) == {ENode(e) : e \in g.exprs} \cup {RNode(r) : r \in RNodes(g)}

\* self.graph.successors(n), self.graph.predecessors(n)
successors(g, n) ==
  IF n.kind = "expression"
  THEN {RNode(x.to) : x \in {y \in g.rin : y.from = n.e}}
  ELSE {ENode(x[2]) : x \in {y \in g.rout : y[1] = n.r}}

predecessors(g, n) == {m \in Nodes(g) : n \in successors(g, m)}

RECURSIVE Bfs(_, _, _, _)
\* nx.shortest_path(G, source): breadth-first levels. `paths` maps each node
\* found so far to len(path), the number of nodes on its shortest path.
Bfs(g, frontier, paths, len) ==
  IF frontier = {} THEN paths
  ELSE LET found == [n \in DOMAIN paths \cup frontier |->
                       IF n \in DOMAIN paths THEN paths[n] ELSE len]
           next == UNION {successors(g, n) : n \in frontier} \ DOMAIN found
       IN  Bfs(g, next, found, len + 1)

shortest_path(g, source) == Bfs(g, {source}, <<>>, 1)

Min(S) == CHOOSE x \in S : \A y \in S : x <= y
Max(S) == CHOOSE x \in S : \A y \in S : x >= y

\* The body of get_maximal_cycle_length's loop for node n: the lengths of the
\* shortest paths to the predecessors of n reachable from n.
PathsToPredecessors(g, n) ==
  LET shortest_paths == shortest_path(g, n)
  IN  {shortest_paths[n0] : n0 \in predecessors(g, n) \cap DOMAIN shortest_paths}

\* CycleLengths with argmax for argmin over the paths to the predecessors.
CycleLengthsLongest(g) ==
  LET paths == {<<n, PathsToPredecessors(g, n)>> : n \in Nodes(g)}
  IN  {<<p[1], Max(p[2])>> : p \in {q \in paths : q[2] /= {}}}

\* cycle_lengths, as a set of <<node, length>>: np.argmin of an empty list
\* raises ValueError, which skips the node.
CycleLengths(g) ==
  LET paths == {<<n, PathsToPredecessors(g, n)>> : n \in Nodes(g)}
  IN  {<<p[1], Min(p[2])>> : p \in {q \in paths : q[2] /= {}}}

get_maximal_cycle_length(g) ==
  LET cycle_lengths == {c[2] : c \in CycleLengths(g)}
  IN  IF cycle_lengths = {} THEN 0
      ELSE (Max(cycle_lengths) + 1) \div 2

\* ------------------------------------------------- the graph under a driver
VARIABLES
  graph,      \* self.graph
  submitted,  \* history: add_reaction calls made so far, per reaction
  since,      \* history: add_reaction calls since the reaction's node was last removed
  last,       \* the operation called last
  raised,     \* whether that call ended by raising
  food,       \* RafSpec: the food set given to get_raf / get_set_closure
  pc,         \* RafSpec: the analysis call made last
  res,        \* RafSpec: what get_raf returned
  first,      \* RafSpec: what get_raf returned on the graph the subgraph was taken from
  cl          \* RafSpec: what get_set_closure returned

vars == <<graph, submitted, since, last, raised, food, pc, res, first, cl>>

NoResult == [raf |-> {}, food_cl |-> {}, terminated |-> FALSE, not_generated |-> {}]
NoClosure == [s |-> {}, passes |-> 0, terminated |-> FALSE]

\* max_len arguments given to trim_short_formulae.
TrimArgs == {0, 1, 2}

analysis == <<food, pc, res, first, cl>>

Init ==
  /\ graph = EmptyGraph
  /\ submitted = [r \in Reactions |-> 0]
  /\ since = [r \in Reactions |-> 0]
  /\ last = "init"
  /\ raised = FALSE
  /\ food = {}
  /\ pc = "idle"
  /\ res = NoResult
  /\ first = NoResult
  /\ cl = NoClosure

\* The history of a step that takes the graph to g.
Since(g) == [r \in Reactions |->
               IF r \in RNodes(graph) /\ r \notin RNodes(g) THEN 0 ELSE since[r]]

RECURSIVE Total(_, _)
\* The sum of f over the set S.
Total(f, S) ==
  IF S = {} THEN 0
  ELSE LET x == CHOOSE y \in S : TRUE IN f[x] + Total(f, S \ {x})

AddReaction(r) ==
  /\ Total(submitted, Reactions) < MaxAdds
  /\ graph' = add_reaction(graph, r)
  /\ submitted' = [submitted EXCEPT ![r] = @ + 1]
  /\ since' = [since EXCEPT ![r] = @ + 1]
  /\ last' = "add_reaction"
  /\ raised' = FALSE
  /\ UNCHANGED analysis

RemoveFoodEdges ==
  /\ LET out == remove_food_edges(graph)
     IN  /\ graph' = out.graph
         /\ raised' = out.raised
         /\ since' = Since(out.graph)
  /\ last' = "remove_food_edges"
  /\ UNCHANGED <<submitted, analysis>>

RemoveSelfloop ==
  /\ graph' = remove_selfloop(graph)
  /\ since' = Since(remove_selfloop(graph))
  /\ last' = "remove_selfloop"
  /\ raised' = FALSE
  /\ UNCHANGED <<submitted, analysis>>

TrimShortFormulae(max_len) ==
  /\ graph' = trim_short_formulae(graph, max_len)
  /\ since' = Since(trim_short_formulae(graph, max_len))
  /\ last' = "trim_short_formulae"
  /\ raised' = FALSE
  /\ UNCHANGED <<submitted, analysis>>

Next ==
  \/ \E r \in Reactions : AddReaction(r)
  \/ RemoveFoodEdges
  \/ RemoveSelfloop
  \/ \E max_len \in TrimArgs : TrimShortFormulae(max_len)

Spec == Init /\ [][Next]_vars

\* ----------------------------------------------- the analysis of one graph
\* The reactive and product lists of the reactions analysed: every list of
\* at most two distinct expressions, the empty one included.
Lists == << <<>>, <<"A">>, <<"B">>, <<"C">>,
            <<"A", "B">>, <<"A", "C">>, <<"B", "C">> >>

Substrate(reactives) == IF reactives = <<>> THEN "none" ELSE reactives[1]

\* The reactions analysed: every 'reduce' reaction over Lists, and one of
\* another type.
GenReactions ==
  {Rx("reduce", Lists[i], Lists[j], Substrate(Lists[i])) :
     i \in DOMAIN Lists, j \in DOMAIN Lists}
  \cup {Rx("combine", <<"A", "B">>, <<"C">>, "A")}

RECURSIVE Build(_, _)
\* The graph after add_reaction of each reaction of S.
Build(g, S) ==
  IF S = {} THEN g
  ELSE LET r == CHOOSE x \in S : TRUE IN Build(add_reaction(g, r), S \ {r})

\* The sets of at most MaxReactions reactions.
ReactionSets ==
  {{}} \cup {Range(f) : f \in [1..MaxReactions -> GenReactions]}

RafInit ==
  /\ graph \in {Build(EmptyGraph, S) : S \in ReactionSets}
  /\ food \in SUBSET Exprs
  /\ submitted = [r \in Reactions |-> 0]
  /\ since = [r \in Reactions |-> 0]
  /\ last = "init"
  /\ raised = FALSE
  /\ pc = "start"
  /\ res = NoResult
  /\ first = NoResult
  /\ cl = NoClosure

driver == <<submitted, since, last, raised>>

CallClosure ==
  /\ pc = "start"
  /\ \E order \in Orders(get_all_reducing_reactions(graph)) :
       cl' = get_set_closure(food, order)
  /\ pc' = "closure"
  /\ UNCHANGED <<graph, food, res, first, driver>>

CallGetRaf ==
  /\ pc = "start"
  /\ \E order \in Orders(get_all_reducing_reactions(graph)) :
       res' = get_raf(graph, food, order)
  /\ pc' = "raf"
  /\ UNCHANGED <<graph, food, first, cl, driver>>

\* The graph of the reactions get_raf returned.
Subgraph ==
  /\ pc = "raf"
  /\ graph' = get_subgraph_from_reactions(graph, res.raf)
  /\ first' = res
  /\ pc' = "subgraph"
  /\ UNCHANGED <<food, res, cl, driver>>

CallGetRafAgain ==
  /\ pc = "subgraph"
  /\ \E order \in Orders(get_all_reducing_reactions(graph)) :
       res' = get_raf(graph, food, order)
  /\ pc' = "raf2"
  /\ UNCHANGED <<graph, food, first, cl, driver>>

RafNext == CallClosure \/ CallGetRaf \/ Subgraph \/ CallGetRafAgain

RafSpec == RafInit /\ [][RafNext]_vars

\* ------------------------------------------------------- reference notions
Reductions == get_all_reducing_reactions(graph)

\* T is closed under R: a reaction whose reactives are all in T has all its
\* products in T.
ClosedUnder(T, R) ==
  \A r \in R : Range(r.reactives) \subseteq T => Range(r.products) \subseteq T

\* The smallest superset of S closed under R.
LeastClosed(S, R) ==
  CHOOSE T \in SUBSET Exprs :
    /\ S \subseteq T
    /\ ClosedUnder(T, R)
    /\ \A U \in SUBSET Exprs : (S \subseteq U /\ ClosedUnder(U, R)) => T \subseteq U

FoodClosure == LeastClosed(food, Reductions)

ProductsOf(R) == UNION {Range(r.products) : r \in R}
ReactivesOf(R) == UNION {Range(r.reactives) : r \in R}

\* (i) each reactive of r is in the food closure or a product of a member of R
Fed(r, R) == Range(r.reactives) \subseteq FoodClosure \cup ProductsOf(R)

\* (ii) some product of r is a reactive of a member of R and not in the food closure
Contributes(r, R) == (Range(r.products) \cap ReactivesOf(R)) \ FoodClosure /= {}

SelfSustaining(R) == \A r \in R : Fed(r, R) /\ Contributes(r, R)

\* ---------------------------------------------------------------------- C1
Scenario == pc = "raf" /\ RNodes(graph) = {r1, r2} /\ food = {"A", "B"}

\* C1 as stated: on the graph of r1 = [A, B] -> [C] and r2 = [C] -> [A],
\* get_raf({A, B}) returns a set that contains both r1 and r2.
C1_Original == Scenario => {r1, r2} \subseteq res.raf

\* C1 as amended: on the graph of r1 and r2, get_raf({A, B}) returns the empty
\* set: the food closure is {A, B, C}, so no product of r1 or r2 lies outside it.
C1_EmptyRaf == Scenario => res.raf = {} /\ res.food_cl = {"A", "B", "C"}

\* get_raf({A, B}) has returned on the graph of r1 and r2.
C1_Witness == Scenario /\ res.terminated

\* ---------------------------------------------------------------------- C2
\* C2 as stated: get_raf(F) on the graph whose reduce reactions are exactly
\* R = get_raf(F) returns exactly R.
C2_FixedPoint == pc = "raf2" => res.raf = first.raf

\* ---------------------------------------------------------------------- C3
\* C3: get_raf(F) terminates and returns the greatest set R of reduce
\* reactions of the graph in which every member has (i) each reactive in
\* closure(F, all reductions) or produced in R and (ii) a product consumed in R
\* that is not in that closure.
C3_GreatestSelfSustaining ==
  pc = "raf" =>
    /\ res.terminated
    /\ res.raf \subseteq Reductions
    /\ SelfSustaining(res.raf)
    /\ \A R \in SUBSET Reductions : SelfSustaining(R) => R \subseteq res.raf

\* Some reactions were pruned and some were kept.
C3_Witness ==
  /\ pc = "raf"
  /\ res.raf /= {}
  /\ res.raf /= Reductions

\* ---------------------------------------------------------------------- C4
\* C4 as stated: every reaction in get_raf(F) has a product outside the food
\* closure that is a reactive of another reaction of the result.
C4_Original ==
  pc = "raf" =>
    \A r \in res.raf :
      \E x \in Range(r.products) \ FoodClosure :
        \E q \in res.raf \ {r} : x \in Range(q.reactives)

\* C4 as amended: every reaction in get_raf(F) has a product outside the food
\* closure that is a reactive of a reaction of the result, which may be the
\* reaction itself.
C4_ConsumedInResult ==
  pc = "raf" =>
    \A r \in res.raf :
      \E x \in Range(r.products) \ FoodClosure :
        \E q \in res.raf : x \in Range(q.reactives)

\* A kept reaction whose products outside the food closure feed nothing but itself.
C4_Witness ==
  /\ pc = "raf"
  /\ \E r \in res.raf :
       \A x \in Range(r.products) \ FoodClosure :
         \A q \in res.raf \ {r} : x \notin Range(q.reactives)

\* ---------------------------------------------------------------------- C5
\* C5: get_set_closure(S, R) terminates and returns the smallest superset of
\* S closed under R; it contains S, and the closure of the result is the
\* result.
C5_LeastClosed ==
  pc = "closure" =>
    /\ cl.terminated
    /\ cl.s = LeastClosed(food, Reductions)
    /\ food \subseteq cl.s
    /\ \A order \in Orders(Reductions) :
         LET again == get_set_closure(cl.s, order)
         IN  again.terminated /\ again.s = cl.s

\* A closure that took two productive passes, over reactions of which one
\* has no reactives or no products.
C5_Witness ==
  /\ pc = "closure"
  /\ cl.passes = 3
  /\ \E r \in Reductions : r.reactives = <<>> \/ r.products = <<>>

\* ---------------------------------------------------------------------- C6
\* C6 as stated: get_occurrences(r) equals the number of add_reaction(r)
\* calls made so far (and so never decreases).
C6_Original ==
  \A r \in Reactions : get_occurrences(graph, r) = PyInt(submitted[r])

\* C6 as amended: get_occurrences(r) equals the number of add_reaction(r)
\* calls made since r's node was last removed from the graph (all of them
\* when it never was), and it decreases in no step but a remove_selfloop
\* that removes r's node.
C6_CountsSinceRemoval ==
  [][\A r \in Reactions :
       /\ get_occurrences(graph', r) = PyInt(since'[r])
       /\ get_occurrences(graph', r).v < get_occurrences(graph, r).v
            => /\ last' = "remove_selfloop"
               /\ r \in RNodes(graph)
               /\ r \notin RNodes(graph')]_vars

\* A reaction removed by remove_selfloop and submitted again since.
C6_Witness ==
  \E r \in Reactions :
    /\ r \in RNodes(graph)
    /\ get_occurrences(graph, r) = PyInt(1)
    /\ submitted[r] = 3

\* ---------------------------------------------------------------------- C7
Attributes == {"node_type", "reaction_type", "occurrences"}
Keys == {ENode(e) : e \in Exprs} \cup {RNode(r) : r \in Reactions}

\* C7 as stated: without a default get_node_attribute raises KeyError when
\* the node is absent and when the node lacks the attribute; a default that
\* is supplied is returned in both cases.
C7_NotFound ==
  \A node \in Keys : \A attribute \in Attributes :
    (~InGraph(graph, node) \/ ~HasAttr(graph, node, attribute)) =>
      /\ get_node_attribute(graph, node, attribute, PyNone) = KeyError
      /\ get_node_attribute(graph, node, attribute, PyInt(0)) = PyInt(0)

\* ---------------------------------------------------------------------- C8
RECURSIVE FirstReturn(_, _, _, _)
\* The least k' >= k at which a walk of k' edges from n is back at n, S being
\* the nodes at which the walks of k - 1 edges from n end; 0 when there is
\* none of at most as many edges as the graph has nodes.
FirstReturn(g, n, S, k) ==
  IF k > Cardinality(Nodes(g)) THEN 0
  ELSE LET ends == UNION {successors(g, m) : m \in S}
       IN  IF n \in ends THEN k ELSE FirstReturn(g, n, ends, k + 1)

\* The number of edges of the shortest cycle through n; 0 when n is on none.
ShortestCycle(g, n) == FirstReturn(g, n, {n}, 1)

\* floor((L + 1) / 2), L the greatest over the nodes on a cycle of the
\* length of the shortest cycle through the node; 0 without a cycle.
Level(g) ==
  LET lengths == {ShortestCycle(g, n) : n \in Nodes(g)} \ {0}
  IN  IF lengths = {} THEN 0 ELSE (Max(lengths) + 1) \div 2

\* C8: get_maximal_cycle_length returns floor((L + 1) / 2) for the greatest
\* shortest-cycle length L over the nodes on a cycle, and 0 when no node is
\* on a cycle.
C8_Level == get_maximal_cycle_length(graph) = Level(graph)

\* A graph with nodes whose shortest cycles differ in length, a node on no
\* cycle and a node on cycles of two lengths.
C8_Witness ==
  /\ \E c \in CycleLengths(graph) : c[2] = 2
  /\ \E c \in CycleLengths(graph) : c[2] = 4
  /\ \E n \in Nodes(graph) : PathsToPredecessors(graph, n) = {}
  /\ \E n \in Nodes(graph) : {2, 4} \subseteq PathsToPredecessors(graph, n)

\* ---------------------------------------------------------------------- C9
RECURSIVE Count(_, _)
\* How often e occurs in the list q.
Count(e, q) ==
  IF q = <<>> THEN 0 ELSE (IF q[1] = e THEN 1 ELSE 0) + Count(e, Tail(q))

SameMultiset(p, q) == \A e \in Exprs : Count(e, p) = Count(e, q)

\* C9 as stated: after remove_selfloop the graph holds no reaction node whose
\* reactives and products are equal as multisets.
C9_NoMultisetLoop ==
  last = "remove_selfloop" =>
    \A n \in RNodes(graph) : ~SameMultiset(n.reactives, n.products)

\* --------------------------------------------------------------------- C10
\* C10 as stated: remove_food_edges does not raise and leaves no edge from
\* the minimum-length reactive into a reduce reaction of more than one
\* reactive.
C10_NoRaise ==
  last = "remove_food_edges" =>
    /\ ~raised
    /\ \A n \in RNodes(graph) :
         (n.type = "reduce" /\ Len(n.reactives) > 1) =>
           ~HasEdgeIn(graph, MinByLen(n.reactives, 2, n.reactives[1]), n)

============================================================================
